---- MODULE Spec2Model ----
(***************************************************************************)
(* Model of the preset manager of kolosal-desktop                          *)
(* (src/source/win/kolosal.cpp, class PresetManager declared in            *)
(* src/include/kolosal.h) together with the preset sidebar code that       *)
(* edits the current preset in place.                                      *)
(*                                                                         *)
(* Conventions                                                             *)
(*  - std::vector<ModelPreset> is a sequence; the code's 0-based index k   *)
(*    is the sequence position k + 1.                                      *)
(*  - std::string is a sequence of one-character strings.                  *)
(*  - float fields hold integers: temperature and top_p in tenths, the    *)
(*    other float fields as whole numbers.                                 *)
(*  - the presets directory is the function files: file stem -> content,   *)
(*    its DOMAIN being the <stem>.json files that exist.                   *)
(***************************************************************************)
EXTENDS Integers, Sequences, FiniteSets, TLC

\* ------------------------------------------------------------------ bounds
\* Largest number of .json files kept in the presets directory.
MaxPresets == 3
\* std::time(nullptr) returns 1..MaxTime while the program runs.
MaxTime == 2
\* Number of in-place edits of the current preset in one run.
MaxEdits == 1
\* Number of failing filesystem operations in one run.
MaxFaults == 1
\* Number of calls and edits made after the constructor in one run.
MaxCalls == 3
\* Every name of up to MaxShortName characters is passed to
\* isValidPresetName.
MaxShortName == 2
\* Largest number of chat sessions in the registry.
MaxChats == 3
\* Largest number of messages in one chat session.
MaxMessages == 4

\* ------------------------------------------------------------- characters
NUL == "NUL"

\* const std::string invalidChars = R"(<>:"/\|?*)"
invalidChars == {"<", ">", ":", "\"", "/", "\\", "|", "?", "*"}

\* name.length() > 256
MaxNameLength == 256

\* strlen(name.data()): the number of characters before the first NUL.
strlen(s) ==
    LET nuls == {i \in 1..Len(s) : s[i] = NUL}
    IN  IF nuls = {} THEN Len(s)
        ELSE (CHOOSE i \in nuls : \A j \in nuls : i <= j) - 1

\* isValidPresetName, were the length compared with >= 256.
isValidPresetNameBelow256(name) ==
    IF strlen(name) = 0 \/ Len(name) >= MaxNameLength
    THEN FALSE
    ELSE IF \E i \in 1..Len(name) : name[i] \in invalidChars
         THEN FALSE
         ELSE TRUE

isValidPresetName(name) ==
    IF strlen(name) = 0 \/ Len(name) > MaxNameLength
    THEN FALSE
    ELSE IF \E i \in 1..Len(name) : name[i] \in invalidChars
         THEN FALSE
         ELSE TRUE

\* std::to_string(counter) for a counter >= 1: its decimal digits.
Digit(d) == CASE d = 0 -> "0" [] d = 1 -> "1" [] d = 2 -> "2" [] d = 3 -> "3"
              [] d = 4 -> "4" [] d = 5 -> "5" [] d = 6 -> "6" [] d = 7 -> "7"
              [] d = 8 -> "8" [] d = 9 -> "9"

RECURSIVE to_string(_)
to_string(n) ==
    IF n < 10 THEN <<Digit(n)>> ELSE to_string(n \div 10) \o <<Digit(n % 10)>>

\* ----------------------------------------------------------------- presets
\* struct ModelPreset: the ten fields.
Fields == {"id", "lastModified", "name", "systemPrompt", "temperature",
           "top_p", "top_k", "random_seed", "min_length", "max_new_tokens"}

ModelPreset(id, lastModified, name, systemPrompt, t, p, k, seed, mn, mx) ==
    [id |-> id, lastModified |-> lastModified, name |-> name,
     systemPrompt |-> systemPrompt, temperature |-> t, top_p |-> p,
     top_k |-> k, random_seed |-> seed, min_length |-> mn,
     max_new_tokens |-> mx]

DefaultName == <<"d", "e", "f", "a", "u", "l", "t">>

\* initializeDefaultPreset(): id 0, the time of construction, "default",
\* "You are a helpful assistant." (here the prompt "h"), 0.7, 0.9, 50, 42,
\* 0, 2048.
initializeDefaultPreset(t) ==
    ModelPreset(0, t, DefaultName, <<"h">>, 7, 9, 50, 42, 0, 2048)

\* to_json, were the values of top_p and top_k stored under each other's key.
to_jsonSwapped(p) ==
    [id |-> p.id, lastModified |-> p.lastModified, name |-> p.name,
     systemPrompt |-> p.systemPrompt, temperature |-> p.temperature,
     top_p |-> p.top_k, top_k |-> p.top_p, random_seed |-> p.random_seed,
     min_length |-> p.min_length, max_new_tokens |-> p.max_new_tokens]

\* to_json: one key per field, each holding that field's value.
to_json(p) ==
    [id |-> p.id, lastModified |-> p.lastModified, name |-> p.name,
     systemPrompt |-> p.systemPrompt, temperature |-> p.temperature,
     top_p |-> p.top_p, top_k |-> p.top_k, random_seed |-> p.random_seed,
     min_length |-> p.min_length, max_new_tokens |-> p.max_new_tokens]

\* from_json: j.at(key) throws for a missing key, so a record is produced
\* only when all ten keys are present.
from_json_ok(j) == Fields \subseteq DOMAIN j

from_json(j) ==
    ModelPreset(j.id, j.lastModified, j.name, j.systemPrompt, j.temperature,
                j.top_p, j.top_k, j.random_seed, j.min_length,
                j.max_new_tokens)

\* A file that does not parse as a preset.
CorruptFile == [garbage |-> 0]

\* A preset file that lost its last key: JSON that parses, from which
\* j.at("max_new_tokens") throws.
TruncatedFile(j) == [f \in DOMAIN j \ {"max_new_tokens"} |-> j[f]]

\* ---------------------------------------------------------- chat sessions
\* Chat::Message, of which the id and the role matter here.
Message(id, role) == [id |-> id, role |-> role]

\* A chat session: its name and its ordered messages.
ChatHistory(name, messages) == [name |-> name, messages |-> messages]

\* The two members of the chat session registry as one value; current is the
\* position of the current session counted from 0, -1 when there is none.
Registry(cs, current) == [chats |-> cs, current |-> current]

\* getCurrentChat().has_value()
hasCurrentChat(r) == r.current >= 0 /\ r.current < Len(r.chats)

\* getCurrentChat().value(): a copy of the current session.
getCurrentChat(r) == r.chats[r.current + 1]

getChatsSize(r) == Len(r.chats)

\* getDefaultChatName(): the fixed prefix of generated names.
getDefaultChatName == <<"N">>

\* createNewChat(name): appends a new empty session of that name and makes it
\* current.
createNewChat(r, name) ==
    Registry(Append(r.chats, ChatHistory(name, <<>>)), Len(r.chats))

\* renameCurrentChat(newName): writes the name of the current session; no
\* uniqueness check.
renameCurrentChat(r, newName) ==
    IF hasCurrentChat(r)
    THEN [r EXCEPT !.chats[r.current + 1].name = newName]
    ELSE r

\* switchToChat(name): the first session of that name becomes current; a name
\* no session has changes nothing.
switchToChat(r, name) ==
    LET hits == {i \in 1..Len(r.chats) : r.chats[i].name = name}
    IN  IF hits = {} THEN r
        ELSE [r EXCEPT !.current =
                 (CHOOSE i \in hits : \A j \in hits : i <= j) - 1]

\* addMessageToCurrentChat(message): sets message.id to the message count of
\* the current session + 1 and appends the message to it.
addMessageToCurrentChat(r, message) ==
    IF hasCurrentChat(r)
    THEN [r EXCEPT !.chats[r.current + 1].messages =
             Append(@, Message(Len(@) + 1, message.role))]
    ELSE r

\* processInput, were the second id computed as if currentChat were the live
\* session and not a copy taken before the first append.
processInputLiveCount(r) ==
    LET currentChat      == getCurrentChat(r)
        userMessage      == Message(Len(currentChat.messages) + 1, "user")
        r1               == addMessageToCurrentChat(r, userMessage)
        assistantMessage == Message(Len(currentChat.messages) + 1,
                                    "assistant")
        r2               == addMessageToCurrentChat(r1, assistantMessage)
    IN  [registry |-> r2, userId |-> userMessage.id,
         assistantId |-> assistantMessage.id]

\* The processInput lambda of renderInputField, for a registry with a current
\* chat: currentChat is the copy getCurrentChat() returned; the user message
\* gets the id size + 1 and is added, the assistant message gets the id
\* size + 2, size still being that of the copy, and is added. The outcome is
\* the registry and the two ids the lambda computed.
processInput(r) ==
    LET currentChat      == getCurrentChat(r)
        userMessage      == Message(Len(currentChat.messages) + 1, "user")
        r1               == addMessageToCurrentChat(r, userMessage)
        assistantMessage == Message(Len(currentChat.messages) + 2,
                                    "assistant")
        r2               == addMessageToCurrentChat(r1, assistantMessage)
    IN  [registry |-> r2, userId |-> userMessage.id,
         assistantId |-> assistantMessage.id]

\* Chat::initializeChatManager(): the registry starts with one session,
\* created automatically and current.
FirstChat ==
    createNewChat(Registry(<<>>, -1), getDefaultChatName \o <<" ">> \o to_string(0))

\* -------------------------------------------------------------------- state
VARIABLES
    loadedPresets,      \* std::vector<ModelPreset> loadedPresets
    originalPresets,    \* std::vector<ModelPreset> originalPresets
    currentPresetIndex, \* int currentPresetIndex
    hasInitialized,     \* bool hasInitialized
    defaultPreset,      \* ModelPreset defaultPreset
    files,              \* the presets directory: stem -> content of <stem>.json
    exported,           \* the files outside the presets directory: path -> content
    chats,              \* the chat sessions of Chat::ChatManager
    currentChatIndex,   \* the position of the current chat session, from 0
    now,                \* std::time(nullptr)
    constructed,        \* the constructor has returned
    edits,              \* in-place edits made so far
    faults,             \* filesystem failures so far
    calls,              \* calls and edits made so far
    last                \* the call made by the latest step, and its result

vars == <<loadedPresets, originalPresets, currentPresetIndex, hasInitialized,
          defaultPreset, files, exported, chats, currentChatIndex, now,
          constructed, edits, faults, calls, last>>

\* The three members the public operations read and write, as one value.
Manager(l, o, c) ==
    [loadedPresets |-> l, originalPresets |-> o, currentPresetIndex |-> c]

Self == Manager(loadedPresets, originalPresets, currentPresetIndex)

\* `int < size_t` and `int >= size_t`: the int is converted to size_t, so a
\* negative index becomes a value larger than any vector size.
IntLtSize(i, n) == i >= 0 /\ i < n

IntGeSize(i, n) == i < 0 \/ i >= n

\* -------------------------------------------------------------- std::sort
\* The comparator is a.lastModified > b.lastModified.
Permute(s, p) == [i \in 1..Len(s) |-> s[p[i]]]

\* Newest, were the entries left in any order.
NewestAny(s, S) == S

\* The positions of S whose entry no other entry of S must precede.
Newest(s, S) == {i \in S : \A j \in S : s[i].lastModified >= s[j].lastModified}

\* The orders std::sort may leave the entries at the positions S in: it is not
\* stable, so entries with equal lastModified may end up in any relative
\* order.
RECURSIVE SortOrdersOf(_, _)
SortOrdersOf(s, S) ==
    IF S = {} THEN {<<>>}
    ELSE UNION {{<<i>> \o rest : rest \in SortOrdersOf(s, S \ {i})} :
                i \in Newest(s, S)}

SortOrders(s) == SortOrdersOf(s, 1..Len(s))

SortKeys(s) == [i \in 1..Len(s) |-> s[i].lastModified]

\* SortBoth, were the second sort free to order equal entries differently
\* from the first.
SortBothIndependently(l, o) ==
    {<<Permute(l, p), Permute(o, q)>> :
        p \in SortOrders(l), q \in SortOrders(o)}

\* The two consecutive std::sort calls on loadedPresets and originalPresets.
\* std::sort decides every move by the comparator's answers alone, and the
\* comparator reads only lastModified: on two vectors with the same sequence
\* of lastModified values both calls make the same moves.
SortBoth(l, o) ==
    IF SortKeys(l) = SortKeys(o)
    THEN {<<Permute(l, p), Permute(o, p)>> : p \in SortOrders(l)}
    ELSE {<<Permute(l, p), Permute(o, q)>> :
             p \in SortOrders(l), q \in SortOrders(o)}

\* ------------------------------------------------------ hasUnsavedChanges
\* hasUnsavedChanges, were the comparison of max_new_tokens left out.
hasUnsavedChangesSkipsTokens(m) ==
    IF IntGeSize(m.currentPresetIndex, Len(m.loadedPresets))
       \/ IntGeSize(m.currentPresetIndex, Len(m.originalPresets))
    THEN FALSE
    ELSE LET current  == m.loadedPresets[m.currentPresetIndex + 1]
             original == m.originalPresets[m.currentPresetIndex + 1]
         IN  \/ current.name # original.name
             \/ current.systemPrompt # original.systemPrompt
             \/ current.temperature # original.temperature
             \/ current.top_p # original.top_p
             \/ current.top_k # original.top_k
             \/ current.random_seed # original.random_seed
             \/ current.min_length # original.min_length

hasUnsavedChanges(m) ==
    IF IntGeSize(m.currentPresetIndex, Len(m.loadedPresets))
       \/ IntGeSize(m.currentPresetIndex, Len(m.originalPresets))
    THEN FALSE
    ELSE LET current  == m.loadedPresets[m.currentPresetIndex + 1]
             original == m.originalPresets[m.currentPresetIndex + 1]
         IN  \/ current.name # original.name
             \/ current.systemPrompt # original.systemPrompt
             \/ current.temperature # original.temperature
             \/ current.top_p # original.top_p
             \/ current.top_k # original.top_k
             \/ current.random_seed # original.random_seed
             \/ current.min_length # original.min_length
             \/ current.max_new_tokens # original.max_new_tokens

\* ----------------------------------------------------- resetCurrentPreset
\* resetCurrentPreset, were the first entry the one restored.
resetCurrentPresetFirst(m) ==
    IF IntLtSize(m.currentPresetIndex, Len(m.originalPresets))
    THEN [m EXCEPT !.loadedPresets[1] = m.originalPresets[1]]
    ELSE m

resetCurrentPreset(m) ==
    IF IntLtSize(m.currentPresetIndex, Len(m.originalPresets))
    THEN [m EXCEPT !.loadedPresets[m.currentPresetIndex + 1] =
                        m.originalPresets[m.currentPresetIndex + 1]]
    ELSE m

\* ----------------------------------------------------------- switchPreset
\* switchPreset, were the unsaved changes kept.
switchPresetKeepsEdits(m, newIndex) ==
    IF newIndex < 0 \/ newIndex >= Len(m.loadedPresets)
    THEN m
    ELSE [m EXCEPT !.currentPresetIndex = newIndex]

\* switchPreset, were the upper bound checked with > in place of >=.
switchPresetAcceptsSize(m, newIndex) ==
    IF newIndex < 0 \/ newIndex > Len(m.loadedPresets)
    THEN m
    ELSE LET r == IF hasUnsavedChanges(m) THEN resetCurrentPreset(m) ELSE m
         IN  [r EXCEPT !.currentPresetIndex = newIndex]

switchPreset(m, newIndex) ==
    IF newIndex < 0 \/ newIndex >= Len(m.loadedPresets)
    THEN m
    ELSE LET r == IF hasUnsavedChanges(m) THEN resetCurrentPreset(m) ELSE m
         IN  [r EXCEPT !.currentPresetIndex = newIndex]

\* ------------------------------------------------------------- savePreset
\* getPresetFilePath(name) exists.
FileExists(fs, name) == name \in DOMAIN fs

\* file << j.dump(4) on getPresetFilePath(name).
WriteFile(fs, name, content) ==
    [n \in DOMAIN fs \cup {name} |-> IF n = name THEN content ELSE fs[n]]

\* UniqueName, were the name taken as it is.
UniqueNameAsGiven(fs, baseName, name, counter) == name

\* The loop that finds a unique name: baseName + "_" + to_string(counter++)
\* while the file of the name exists.
RECURSIVE UniqueName(_, _, _, _)
UniqueName(fs, baseName, name, counter) ==
    IF FileExists(fs, name)
    THEN UniqueName(fs, baseName, baseName \o <<"_">> \o to_string(counter),
                    counter + 1)
    ELSE name

\* The positions of the entries of s named name.
NamedAt(s, name) == {i \in 1..Len(s) : s[i].name = name}

Lowest(S) == CHOOSE i \in S : \A j \in S : i <= j

\* UpdateLists, were originalPresets[i] left as it was on an overwrite.
UpdateListsLoadedOnly(m, newPreset, createNewFile) ==
    LET hits == NamedAt(m.loadedPresets, newPreset.name)
    IN  IF createNewFile
        THEN <<Append(m.loadedPresets, newPreset),
               Append(m.originalPresets, newPreset)>>
        ELSE IF hits = {}
             THEN <<m.loadedPresets, m.originalPresets>>
             ELSE <<[m.loadedPresets EXCEPT ![Lowest(hits)] = newPreset],
                    m.originalPresets>>

\* "Update original preset state after successful save": with createNewFile
\* the preset is pushed onto both vectors, otherwise it replaces the first
\* entry of its name in both (and nothing happens when no entry has the name).
UpdateLists(m, newPreset, createNewFile) ==
    LET hits == NamedAt(m.loadedPresets, newPreset.name)
    IN  IF createNewFile
        THEN <<Append(m.loadedPresets, newPreset),
               Append(m.originalPresets, newPreset)>>
        ELSE IF hits = {}
             THEN <<m.loadedPresets, m.originalPresets>>
             ELSE <<[m.loadedPresets EXCEPT ![Lowest(hits)] = newPreset],
                    [m.originalPresets EXCEPT ![Lowest(hits)] = newPreset]>>

\* savePreset, were the vectors updated before the file is opened.
savePresetUpdatesFirst(m, fs, preset, createNewFile, t, openOk) ==
    IF ~isValidPresetName(preset.name)
    THEN {[ok |-> FALSE, m |-> m, files |-> fs, saved |-> preset.name]}
    ELSE
    LET stamped   == [preset EXCEPT !.lastModified = t]
        newPreset == IF createNewFile
                     THEN [stamped EXCEPT !.name =
                              UniqueName(fs, stamped.name, stamped.name, 1)]
                     ELSE stamped
        written   == WriteFile(fs, newPreset.name, to_json(newPreset))
        updated   == UpdateLists(m, newPreset, createNewFile)
    IN
    IF ~openOk
    THEN {[ok |-> FALSE,
           m |-> Manager(updated[1], updated[2], m.currentPresetIndex),
           files |-> fs, saved |-> newPreset.name]}
    ELSE
    {[ok    |-> TRUE,
      m     |-> switchPreset(Manager(lo[1], lo[2], m.currentPresetIndex),
                             Len(lo[1]) - 1),
      files |-> written,
      saved |-> newPreset.name] : lo \in SortBoth(updated[1], updated[2])}

\* The outcomes of savePreset(preset, createNewFile) at time t; openOk tells
\* whether the file can be opened for writing. An outcome is the return
\* value, the members, the directory and the name the preset was saved under.
savePreset(m, fs, preset, createNewFile, t, openOk) ==
    IF ~isValidPresetName(preset.name)
    THEN {[ok |-> FALSE, m |-> m, files |-> fs, saved |-> preset.name]}
    ELSE
    LET stamped   == [preset EXCEPT !.lastModified = t]
        newPreset == IF createNewFile
                     THEN [stamped EXCEPT !.name =
                              UniqueName(fs, stamped.name, stamped.name, 1)]
                     ELSE stamped
    IN
    IF ~openOk
    THEN {[ok |-> FALSE, m |-> m, files |-> fs, saved |-> newPreset.name]}
    ELSE
    LET written == WriteFile(fs, newPreset.name, to_json(newPreset))
        updated == UpdateLists(m, newPreset, createNewFile)
    IN
    {[ok    |-> TRUE,
      m     |-> switchPreset(Manager(lo[1], lo[2], m.currentPresetIndex),
                             Len(lo[1]) - 1),
      files |-> written,
      saved |-> newPreset.name] : lo \in SortBoth(updated[1], updated[2])}

\* ------------------------------------------------------- savePresetToPath
\* A file path: the directory it lies in, "presets" for the presets directory
\* and anything else for a directory outside it, and the stem of <stem>.json.
FilePath(dir, stem) == [dir |-> dir, stem |-> stem]

\* savePresetToPath, were the file of the preset's name written.
savePresetToPathByName(m, fs, ex, preset, filePath, openOk) ==
    IF ~isValidPresetName(preset.name)
    THEN [ok |-> FALSE, m |-> m, files |-> fs, exported |-> ex]
    ELSE IF ~openOk
    THEN [ok |-> FALSE, m |-> m, files |-> fs, exported |-> ex]
    ELSE [ok |-> TRUE, m |-> m,
          files |-> WriteFile(fs, preset.name, to_json(preset)),
          exported |-> ex]

\* The outcome of savePresetToPath(preset, filePath); openOk tells whether
\* the directory of filePath can be created and the file opened for writing.
\* The preset is written as it is passed, and it goes to filePath, which may
\* lie in the presets directory.
savePresetToPath(m, fs, ex, preset, filePath, openOk) ==
    IF ~isValidPresetName(preset.name)
    THEN [ok |-> FALSE, m |-> m, files |-> fs, exported |-> ex]
    ELSE IF ~openOk
    THEN [ok |-> FALSE, m |-> m, files |-> fs, exported |-> ex]
    ELSE IF filePath.dir = "presets"
    THEN [ok |-> TRUE, m |-> m,
          files |-> WriteFile(fs, filePath.stem, to_json(preset)),
          exported |-> ex]
    ELSE [ok |-> TRUE, m |-> m, files |-> fs,
          exported |-> WriteFile(ex, filePath, to_json(preset))]

\* ----------------------------------------------------------- deletePreset
\* vector::erase at position i.
Erase(s, i) == [k \in 1..(Len(s) - 1) |-> IF k < i THEN s[k] ELSE s[k + 1]]

\* std::filesystem::remove of getPresetFilePath(name).
RemoveFile(fs, name) == [n \in DOMAIN fs \ {name} |-> fs[n]]

\* Renumber, were the ids counted from 0.
RenumberFromZero(s) == [k \in 1..Len(s) |-> [s[k] EXCEPT !.id = k - 1]]

\* Reassign incremental IDs.
Renumber(s) == [k \in 1..Len(s) |-> [s[k] EXCEPT !.id = k]]

\* deletePreset, were the file removed before the vectors are touched.
deletePresetFileFirst(m, fs, presetName, removeOk) ==
    LET hits == NamedAt(m.loadedPresets, presetName)
        m1 == IF hits = {} THEN m
              ELSE LET index == Lowest(hits)
                       l1 == Erase(m.loadedPresets, index)
                       o1 == Erase(m.originalPresets, index)
                       c1 == IF m.currentPresetIndex >= Len(l1)
                             THEN IF Len(l1) = 0 THEN -1 ELSE Len(l1) - 1
                             ELSE m.currentPresetIndex
                   IN  Manager(Renumber(l1), Renumber(o1), c1)
    IN  IF FileExists(fs, presetName)
        THEN IF removeOk
             THEN [ok |-> TRUE, m |-> m1, files |-> RemoveFile(fs, presetName)]
             ELSE [ok |-> FALSE, m |-> m, files |-> fs]
        ELSE [ok |-> TRUE, m |-> m1, files |-> fs]

\* The outcome of deletePreset(presetName); removeOk tells whether the file,
\* when it exists, can be removed.
deletePreset(m, fs, presetName, removeOk) ==
    LET hits == NamedAt(m.loadedPresets, presetName)
        m1 == IF hits = {} THEN m
              ELSE LET index == Lowest(hits)
                       l1 == Erase(m.loadedPresets, index)
                       o1 == Erase(m.originalPresets, index)
                       c1 == IF m.currentPresetIndex >= Len(l1)
                             THEN IF Len(l1) = 0 THEN -1 ELSE Len(l1) - 1
                             ELSE m.currentPresetIndex
                   IN  Manager(Renumber(l1), Renumber(o1), c1)
    IN  IF FileExists(fs, presetName)
        THEN IF removeOk
             THEN [ok |-> TRUE, m |-> m1, files |-> RemoveFile(fs, presetName)]
             ELSE [ok |-> FALSE, m |-> m1, files |-> fs]
        ELSE [ok |-> TRUE, m |-> m1, files |-> fs]

\* ------------------------------------------------------------ loadPresets
\* The orders in which std::filesystem::directory_iterator may enumerate the
\* files of the directory (the order is unspecified).
DirectoryOrders(fs) ==
    {f \in [1..Cardinality(DOMAIN fs) -> DOMAIN fs] :
        \A i, j \in DOMAIN f : i # j => f[i] # f[j]}

\* ReadPresets, were the scan given up at the first file that does not
\* deserialize.
ReadPresetsUntilDamaged(fs, order) ==
    LET contents == [i \in DOMAIN order |-> fs[order[i]]]
        bad      == {i \in DOMAIN order : ~from_json_ok(contents[i])}
        kept     == {i \in DOMAIN order : \A b \in bad : i < b}
    IN  [i \in 1..Cardinality(kept) |-> from_json(contents[i])]

\* The presets read in one enumeration: a file whose content does not
\* deserialize is skipped.
ReadPresets(fs, order) ==
    LET contents == [i \in DOMAIN order |-> fs[order[i]]]
        parsed   == SelectSeq(contents, from_json_ok)
    IN  [i \in 1..Len(parsed) |-> from_json(parsed[i])]

\* saveDefaultPresets, were the default saved with createNewFile = false.
saveDefaultPresetsInPlace(m, fs, initialized, default, t, openOk) ==
    IF ~initialized
    THEN {[m |-> sv.m, files |-> sv.files, hasInitialized |-> TRUE,
           failed |-> ~sv.ok, stamped |-> TRUE] :
             sv \in savePreset(m, fs, default, FALSE, t, openOk)}
    ELSE {[m |-> m, files |-> fs, hasInitialized |-> initialized,
           failed |-> FALSE, stamped |-> FALSE]}

\* saveDefaultPresets(): unless hasInitialized, savePreset(defaultPreset,
\* true), its result ignored, then hasInitialized = true. An outcome is the
\* members, the directory, hasInitialized, whether the file could not be
\* opened and whether the clock was read.
saveDefaultPresets(m, fs, initialized, default, t, openOk) ==
    IF ~initialized
    THEN {[m |-> sv.m, files |-> sv.files, hasInitialized |-> TRUE,
           failed |-> ~sv.ok, stamped |-> TRUE] :
             sv \in savePreset(m, fs, default, TRUE, t, openOk)}
    ELSE {[m |-> m, files |-> fs, hasInitialized |-> initialized,
           failed |-> FALSE, stamped |-> FALSE]}

\* The outcomes of loadPresets() at time t. iterOk tells whether the
\* directory can be enumerated, openOk whether saveDefaultPresets can open
\* its file. An outcome is the return value, the members, the directory,
\* hasInitialized, whether a filesystem operation failed and whether the
\* clock was read.
loadPresets(m, fs, initialized, default, t, iterOk, openOk) ==
    LET cleared == Manager(<<>>, <<>>, m.currentPresetIndex)
    IN
    IF ~iterOk
    THEN {[ok |-> FALSE, m |-> cleared, files |-> fs,
           hasInitialized |-> initialized, failed |-> TRUE,
           stamped |-> FALSE]}
    ELSE
    UNION {
      LET read == ReadPresets(fs, order)
          foundPresets == Len(read) > 0
          pushed == Manager(read, read, m.currentPresetIndex)
          seeded == IF ~foundPresets /\ ~initialized
                    THEN saveDefaultPresets(pushed, fs, initialized, default,
                                            t, openOk)
                    ELSE {[m |-> pushed, files |-> fs,
                           hasInitialized |-> initialized, failed |-> FALSE,
                           stamped |-> FALSE]}
      IN  UNION {
            {[ok |-> TRUE,
              m |-> Manager(lo[1], lo[2], IF Len(lo[1]) = 0 THEN -1 ELSE 0),
              files |-> sv.files,
              hasInitialized |-> sv.hasInitialized,
              failed |-> sv.failed,
              stamped |-> sv.stamped] :
                lo \in SortBoth(sv.m.loadedPresets, sv.m.originalPresets)}
            : sv \in seeded}
      : order \in DirectoryOrders(fs)}

\* ------------------------------------------------------------------ inputs
\* Names a caller passes to savePreset and deletePreset.
NameInputs == {<<"a">>}

\* A name isValidPresetName rejects, passed to savePreset.
InvalidNameInputs == {<<"?">>}

\* The fields the sidebar widgets are bound to (renderSamplingSettings), and
\* the values a widget may write.
EditValues ==
    [systemPrompt   |-> {<<"h">>, <<"s">>},
     temperature    |-> {7, 3},
     top_p          |-> {9, 5},
     top_k          |-> {50, 40},
     random_seed    |-> {42, 1},
     min_length     |-> {0, 10},
     max_new_tokens |-> {2048, 100}]

EditableFields == DOMAIN EditValues

\* The file savePreset writes for a preset named name at time t that carries
\* the default values.
StoredFile(name, t) == to_json([initializeDefaultPreset(t) EXCEPT !.name = name])

\* Directories the store may be constructed on: an empty one, and the ones an
\* earlier run of the program left behind, "default" alone or with the copies
\* "a" and "a_1" saved from it, each file written in an earlier second (0) or
\* in the second the program starts in (1).
InitialDirectories ==
    LET chain == <<DefaultName, <<"a">>, <<"a", "_", "1">>>>
    IN  UNION {{[n \in {chain[i] : i \in 1..k} |-> StoredFile(n, stamp[n])] :
                   stamp \in [{chain[i] : i \in 1..k} -> 0..1]} :
               k \in {j \in 0..Len(chain) : j <= MaxPresets}}

\* Directories that hold a file the store cannot read, damaged or put there
\* by someone else: the file x.json or default.json, beside nothing or beside
\* a "default" written in an earlier second.
DamagedDirectories ==
    LET beside == {e \in InitialDirectories :
                      /\ DOMAIN e \subseteq {DefaultName}
                      /\ \A m \in DOMAIN e : e[m].lastModified = 0}
    IN  UNION {{WriteFile(d, n, c) :
                   d \in beside,
                   c \in {CorruptFile, TruncatedFile(StoredFile(n, 0))}} :
               n \in {DefaultName, <<"x">>}}

\* Whether getCurrentPreset() names an element of loadedPresets.
HasCurrent ==
    currentPresetIndex >= 0 /\ currentPresetIndex < Len(loadedPresets)

\* The preset a caller passes to savePreset under the name n: a copy of the
\* current preset (the Save button and confirmSaveAsDialog), or of the
\* default preset when no preset is current.
PresetInput(n) ==
    IF HasCurrent
    THEN [loadedPresets[currentPresetIndex + 1] EXCEPT !.name = n]
    ELSE [defaultPreset EXCEPT !.name = n]

\* The names savePreset is called with: the preset's own name or a name typed
\* by the user.
SaveNames ==
    NameInputs \cup InvalidNameInputs
               \cup {IF HasCurrent
                    THEN loadedPresets[currentPresetIndex + 1].name
                    ELSE defaultPreset.name}

\* The values std::time(nullptr) may return in this step: the second of the
\* previous reading or a later one.
ClockReadings == {t \in now..(now + 1) : t <= MaxTime}

\* Whether a filesystem operation may fail in this step.
FaultChoices == IF faults < MaxFaults THEN {TRUE, FALSE} ELSE {TRUE}

\* The record of a call: the operation, its arguments and return value, and
\* what it started from: the current index, the unsaved-changes status and
\* whether the name argument was the name of a loaded preset.
Call(op, ok, name, create, index, saved) ==
    [op |-> op, ok |-> ok, name |-> name, create |-> create, index |-> index,
     saved |-> saved, old |-> currentPresetIndex,
     dirty |-> hasUnsavedChanges(Self),
     hit |-> (NamedAt(loadedPresets, name) # {})]

NoPreset == ModelPreset(0, 0, <<>>, <<>>, 7, 9, 50, 42, 0, 2048)

\* ----------------------------------------------------------------- actions
\* Before the constructor runs: the member initializers currentPresetIndex(0)
\* and hasInitialized(false), empty vectors, a default-constructed
\* defaultPreset.
Init ==
    /\ loadedPresets = <<>>
    /\ originalPresets = <<>>
    /\ currentPresetIndex = 0
    /\ hasInitialized = FALSE
    /\ defaultPreset = NoPreset
    /\ files \in InitialDirectories \cup DamagedDirectories
    /\ exported = <<>>
    /\ chats = FirstChat.chats
    /\ currentChatIndex = FirstChat.current
    /\ now = 1
    /\ constructed = FALSE
    /\ edits = 0
    /\ faults = 0
    /\ calls = 0
    /\ last = Call("none", TRUE, <<>>, FALSE, 0, <<>>)

\* PresetManager::PresetManager: initializeDefaultPreset(), loadPresets().
Construct ==
    /\ ~constructed
    /\ \E iterOk \in FaultChoices, openOk \in FaultChoices :
         \E r \in loadPresets(Self, files, hasInitialized,
                              initializeDefaultPreset(now), now, iterOk,
                              openOk) :
            /\ loadedPresets' = r.m.loadedPresets
            /\ originalPresets' = r.m.originalPresets
            /\ currentPresetIndex' = r.m.currentPresetIndex
            /\ hasInitialized' = r.hasInitialized
            /\ files' = r.files
            /\ faults' = IF r.failed THEN faults + 1 ELSE faults
            /\ last' = Call("construct", r.ok, <<>>, FALSE, 0, <<>>)
    /\ defaultPreset' = initializeDefaultPreset(now)
    /\ constructed' = TRUE
    /\ UNCHANGED <<exported, chats, currentChatIndex,
                   now, edits, calls>>

LoadPresets ==
    /\ constructed
    /\ calls < MaxCalls
    /\ calls' = calls + 1
    /\ \E iterOk \in FaultChoices, openOk \in FaultChoices, t \in ClockReadings :
         \E r \in loadPresets(Self, files, hasInitialized, defaultPreset, t,
                              iterOk, openOk) :
            /\ now' = (IF r.stamped THEN t ELSE now)
            /\ loadedPresets' = r.m.loadedPresets
            /\ originalPresets' = r.m.originalPresets
            /\ currentPresetIndex' = r.m.currentPresetIndex
            /\ hasInitialized' = r.hasInitialized
            /\ files' = r.files
            /\ faults' = IF r.failed THEN faults + 1 ELSE faults
            /\ last' = Call("loadPresets", r.ok, <<>>, FALSE, 0, <<>>)
    /\ UNCHANGED <<exported, chats, currentChatIndex,
                   defaultPreset, constructed, edits>>

SavePreset ==
    /\ constructed
    /\ calls < MaxCalls
    /\ calls' = calls + 1
    /\ \E name \in SaveNames, createNewFile \in BOOLEAN,
          openOk \in FaultChoices, t \in ClockReadings :
         \E r \in savePreset(Self, files, PresetInput(name), createNewFile, t,
                             openOk) :
            /\ openOk \/ isValidPresetName(name)
            /\ now' = t
            /\ Cardinality(DOMAIN r.files) <= MaxPresets
            /\ loadedPresets' = r.m.loadedPresets
            /\ originalPresets' = r.m.originalPresets
            /\ currentPresetIndex' = r.m.currentPresetIndex
            /\ files' = r.files
            /\ faults' = IF openOk THEN faults ELSE faults + 1
            /\ last' = Call("savePreset", r.ok, name, createNewFile,
                            0, r.saved)
    /\ UNCHANGED <<exported, chats, currentChatIndex,
                   hasInitialized, defaultPreset, constructed, edits>>

DeletePreset ==
    /\ constructed
    /\ calls < MaxCalls
    /\ calls' = calls + 1
    /\ \E presetName \in NameInputs \cup DOMAIN files
                         \cup {loadedPresets[i].name : i \in 1..Len(loadedPresets)},
          removeOk \in FaultChoices :
         LET r == deletePreset(Self, files, presetName, removeOk)
         IN  /\ removeOk \/ FileExists(files, presetName)
             /\ loadedPresets' = r.m.loadedPresets
             /\ originalPresets' = r.m.originalPresets
             /\ currentPresetIndex' = r.m.currentPresetIndex
             /\ files' = r.files
             /\ faults' = IF removeOk THEN faults ELSE faults + 1
             /\ last' = Call("deletePreset", r.ok, presetName, FALSE, 0,
                             <<>>)
    /\ UNCHANGED <<exported, chats, currentChatIndex,
                   hasInitialized, defaultPreset, now, constructed, edits>>

SwitchPreset ==
    /\ constructed
    /\ calls < MaxCalls
    /\ calls' = calls + 1
    /\ \E newIndex \in -1..Len(loadedPresets) :
         LET r == switchPreset(Self, newIndex)
         IN  /\ loadedPresets' = r.loadedPresets
             /\ originalPresets' = r.originalPresets
             /\ currentPresetIndex' = r.currentPresetIndex
             /\ last' = Call("switchPreset", TRUE, <<>>, FALSE, newIndex,
                             <<>>)
    /\ UNCHANGED <<exported, chats, currentChatIndex,
                   hasInitialized, defaultPreset, files, now, constructed,
                   edits, faults>>

ResetCurrentPreset ==
    /\ constructed
    /\ calls < MaxCalls
    /\ calls' = calls + 1
    /\ LET r == resetCurrentPreset(Self)
       IN  /\ loadedPresets' = r.loadedPresets
           /\ originalPresets' = r.originalPresets
           /\ currentPresetIndex' = r.currentPresetIndex
    /\ last' = Call("resetCurrentPreset", TRUE, <<>>, FALSE, 0, <<>>)
    /\ UNCHANGED <<exported, chats, currentChatIndex,
                   hasInitialized, defaultPreset, files, now, constructed,
                   edits, faults>>

\* A sidebar widget writes one field of getCurrentPreset() in place
\* (renderSamplingSettings binds the widgets to the reference).
EditCurrentPreset ==
    /\ constructed
    /\ calls < MaxCalls
    /\ calls' = calls + 1
    /\ edits < MaxEdits
    /\ currentPresetIndex >= 0
    /\ currentPresetIndex < Len(loadedPresets)
    /\ \E f \in EditableFields :
         \E v \in EditValues[f] :
            /\ loadedPresets[currentPresetIndex + 1][f] # v
            /\ loadedPresets' =
                  [loadedPresets EXCEPT ![currentPresetIndex + 1][f] = v]
            /\ last' = Call("edit", TRUE, <<f>>, FALSE, 0, <<>>)
    /\ edits' = edits + 1
    /\ UNCHANGED <<exported, chats, currentChatIndex,
                   originalPresets, currentPresetIndex, hasInitialized,
                   defaultPreset, files, now, constructed, faults>>

Next ==
    \/ Construct
    \/ LoadPresets
    \/ SavePreset
    \/ DeletePreset
    \/ SwitchPreset
    \/ ResetCurrentPreset
    \/ EditCurrentPreset

Spec == Init /\ [][Next]_vars

\* ------------------------------------------------------ the store, export
\* The paths a caller passes to savePresetToPath (exportPresets passes the
\* path chosen in the save dialog, with the extension .json): a file
\* elsewhere, or a file of the presets directory.
PathInputs ==
    {FilePath("presets", n) : n \in DOMAIN files}
       \cup {FilePath("elsewhere", n) : n \in NameInputs}

\* The names of the presets passed to savePresetToPath: the current preset's
\* own (exportPresets passes getCurrentPreset()) or an invalid one.
ExportNames ==
    InvalidNameInputs \cup {IF HasCurrent
                            THEN loadedPresets[currentPresetIndex + 1].name
                            ELSE defaultPreset.name}

SavePresetToPath ==
    /\ constructed
    /\ calls < MaxCalls
    /\ calls' = calls + 1
    /\ \E name \in ExportNames, filePath \in PathInputs,
          openOk \in FaultChoices :
         LET r == savePresetToPath(Self, files, exported, PresetInput(name),
                                   filePath, openOk)
         IN  /\ openOk \/ isValidPresetName(name)
             /\ Cardinality(DOMAIN r.files) <= MaxPresets
             /\ loadedPresets' = r.m.loadedPresets
             /\ originalPresets' = r.m.originalPresets
             /\ currentPresetIndex' = r.m.currentPresetIndex
             /\ files' = r.files
             /\ exported' = r.exported
             /\ faults' = IF openOk THEN faults ELSE faults + 1
             /\ last' = Call("savePresetToPath", r.ok, name, FALSE, 0,
                             filePath)
    /\ UNCHANGED <<chats, currentChatIndex, hasInitialized, defaultPreset, now,
                   constructed, edits>>

NextExport ==
    \/ Next
    \/ SavePresetToPath

SpecExport == Init /\ [][NextExport]_vars

\* ------------------------------------------------- the chat sessions alone
TheRegistry == Registry(chats, currentChatIndex)

\* The names the rename dialog is confirmed with.
ChatNameInputs == {<<"r">>}

\* The preset manager at rest beside the registry of chat sessions.
InitChat ==
    /\ loadedPresets = <<>>
    /\ originalPresets = <<>>
    /\ currentPresetIndex = 0
    /\ hasInitialized = FALSE
    /\ defaultPreset = NoPreset
    /\ files = <<>>
    /\ exported = <<>>
    /\ chats = FirstChat.chats
    /\ currentChatIndex = FirstChat.current
    /\ now = 1
    /\ constructed = FALSE
    /\ edits = 0
    /\ faults = 0
    /\ calls = 0
    /\ last = Call("none", TRUE, <<>>, FALSE, 0, <<>>)

\* The "create new chat" button, were the number in the name counted from 1.
CreateNewChatCountFromOne ==
    /\ Len(chats) < MaxChats
    /\ LET name == getDefaultChatName \o <<" ">>
                      \o to_string(getChatsSize(TheRegistry) + 1)
           r    == createNewChat(TheRegistry, name)
       IN  /\ chats' = r.chats
           /\ currentChatIndex' = r.current
           /\ last' = Call("createNewChat", TRUE, name, FALSE, 0, <<>>)
    /\ UNCHANGED <<loadedPresets, originalPresets, currentPresetIndex,
                   hasInitialized, defaultPreset, files, exported, now,
                   constructed, edits, faults, calls>>

\* The "create new chat" button: createNewChat(getDefaultChatName() + " " +
\* to_string(getChatsSize())).
CreateNewChat ==
    /\ Len(chats) < MaxChats
    /\ LET name == getDefaultChatName \o <<" ">>
                      \o to_string(getChatsSize(TheRegistry))
           r    == createNewChat(TheRegistry, name)
       IN  /\ chats' = r.chats
           /\ currentChatIndex' = r.current
           /\ last' = Call("createNewChat", TRUE, name, FALSE, 0, <<>>)
    /\ UNCHANGED <<loadedPresets, originalPresets, currentPresetIndex,
                   hasInitialized, defaultPreset, files, exported, now,
                   constructed, edits, faults, calls>>

\* A button of the chat history list: switchToChat(chat.name).
SwitchToChat ==
    /\ \E i \in 1..Len(chats) :
          LET r == switchToChat(TheRegistry, chats[i].name)
          IN  /\ chats' = r.chats
              /\ currentChatIndex' = r.current
              /\ last' = Call("switchToChat", TRUE, chats[i].name, FALSE,
                              i - 1, <<>>)
    /\ UNCHANGED <<loadedPresets, originalPresets, currentPresetIndex,
                   hasInitialized, defaultPreset, files, exported, now,
                   constructed, edits, faults, calls>>

\* The rename dialog: renameCurrentChat(input).
RenameCurrentChat ==
    /\ \E newName \in ChatNameInputs :
          LET r == renameCurrentChat(TheRegistry, newName)
          IN  /\ chats' = r.chats
              /\ currentChatIndex' = r.current
              /\ last' = Call("renameCurrentChat", TRUE, newName, FALSE, 0,
                              <<>>)
    /\ UNCHANGED <<loadedPresets, originalPresets, currentPresetIndex,
                   hasInitialized, defaultPreset, files, exported, now,
                   constructed, edits, faults, calls>>

\* The input field submits a message: processInput(input). Without a current
\* chat the lambda throws before it touches the registry.
ProcessInput ==
    /\ hasCurrentChat(TheRegistry)
    /\ Len(getCurrentChat(TheRegistry).messages) + 2 <= MaxMessages
    /\ LET r == processInput(TheRegistry)
       IN  /\ chats' = r.registry.chats
           /\ currentChatIndex' = r.registry.current
           /\ last' = Call("processInput", TRUE, <<>>, FALSE, r.userId,
                           r.assistantId)
    /\ UNCHANGED <<loadedPresets, originalPresets, currentPresetIndex,
                   hasInitialized, defaultPreset, files, exported, now,
                   constructed, edits, faults, calls>>

NextChat ==
    \/ CreateNewChat
    \/ SwitchToChat
    \/ RenameCurrentChat
    \/ ProcessInput

SpecChat == InitChat /\ [][NextChat]_vars

\* ------------------------------------------------ to_json and from_json
\* Fully populated preset records: every combination of the values a widget
\* may write, under either id.
PresetRecords ==
    {ModelPreset(id, 0, <<"a">>, sp, t, p, k, seed, mn, mx) :
        id \in {0, 1},
        sp \in EditValues.systemPrompt, t \in EditValues.temperature,
        p \in EditValues.top_p, k \in EditValues.top_k,
        seed \in EditValues.random_seed, mn \in EditValues.min_length,
        mx \in EditValues.max_new_tokens}

\* A store that holds one preset, read from its file.
InitJson ==
    /\ \E P \in PresetRecords :
          /\ loadedPresets = <<P>>
          /\ originalPresets = <<P>>
          /\ files = WriteFile(<<>>, P.name, to_json(P))
    /\ currentPresetIndex = 0
    /\ hasInitialized = FALSE
    /\ defaultPreset = initializeDefaultPreset(1)
    /\ exported = <<>>
    /\ chats = FirstChat.chats
    /\ currentChatIndex = FirstChat.current
    /\ now = 1
    /\ constructed = TRUE
    /\ edits = 0
    /\ faults = 0
    /\ calls = 0
    /\ last = Call("construct", TRUE, <<>>, FALSE, 0, <<>>)

\* The preset is written by savePreset and read back by loadPresets.
NextJson ==
    \/ SavePreset
    \/ LoadPresets

SpecJson == InitJson /\ [][NextJson]_vars

\* ------------------------------------------------- isValidPresetName alone
\* The characters names are made of: a letter, the underscore, the NUL
\* character and the nine characters of invalidChars.
NameChars == {"a", "_", NUL} \cup invalidChars

\* The strings over NameChars of up to n characters.
RECURSIVE StringsUpTo(_)
StringsUpTo(n) ==
    IF n = 0 THEN {<<>>}
    ELSE LET shorter == StringsUpTo(n - 1)
         IN  shorter \cup {Append(s, c) : s \in shorter, c \in NameChars}

\* s followed by as many letters as make it n characters long.
PadTo(s, n) == s \o [i \in 1..(n - Len(s)) |-> "a"]

\* The names isValidPresetName is applied to: every short string, and strings
\* of 255, 256 and 257 characters that start with any character or consist
\* of letters only.
NameStrings ==
    StringsUpTo(MaxShortName)
       \cup {PadTo(s, n) : s \in StringsUpTo(1),
                           n \in (MaxNameLength - 1)..(MaxNameLength + 1)}

\* A name is about to be passed to isValidPresetName.
InitNames ==
    /\ loadedPresets = <<>>
    /\ originalPresets = <<>>
    /\ currentPresetIndex = 0
    /\ hasInitialized = FALSE
    /\ defaultPreset = NoPreset
    /\ files = <<>>
    /\ exported = <<>>
    /\ chats = FirstChat.chats
    /\ currentChatIndex = FirstChat.current
    /\ now = 1
    /\ constructed = FALSE
    /\ edits = 0
    /\ faults = 0
    /\ calls = 0
    /\ \E name \in NameStrings :
          last = Call("name", TRUE, name, FALSE, 0, <<>>)

\* isValidPresetName(name) returns.
CheckName ==
    /\ last.op = "name"
    /\ last' = [last EXCEPT !.op = "isValidPresetName",
                            !.ok = isValidPresetName(last.name)]
    /\ UNCHANGED <<exported, chats, currentChatIndex,
                   loadedPresets, originalPresets, currentPresetIndex,
                   hasInitialized, defaultPreset, files, now, constructed,
                   edits, faults, calls>>

SpecNames == InitNames /\ [][CheckName]_vars

\* ------------------------------------------------------ names at the limit
\* Names of MaxNameLength - 2 to MaxNameLength letters, all of which
\* isValidPresetName accepts.
LongNames ==
    {PadTo(<<>>, n) : n \in (MaxNameLength - 2)..MaxNameLength}

\* Directories that hold default.json and one preset of a long name, saved by
\* an earlier run of the program.
LongNameDirectories ==
    {[n \in {DefaultName, long} |-> StoredFile(n, IF n = long THEN stamp ELSE 0)] :
        long \in LongNames, stamp \in 0..1}

\* Before the constructor runs, on a directory that holds a long name.
InitLongNames ==
    /\ loadedPresets = <<>>
    /\ originalPresets = <<>>
    /\ currentPresetIndex = 0
    /\ hasInitialized = FALSE
    /\ defaultPreset = NoPreset
    /\ files \in LongNameDirectories
    /\ exported = <<>>
    /\ chats = FirstChat.chats
    /\ currentChatIndex = FirstChat.current
    /\ now = 1
    /\ constructed = FALSE
    /\ edits = 0
    /\ faults = 0
    /\ calls = 0
    /\ last = Call("none", TRUE, <<>>, FALSE, 0, <<>>)

\* confirmSaveAsDialog with a long name typed: savePreset(copy of the current
\* preset under that name, true).
SaveAsLongName ==
    /\ constructed
    /\ calls < MaxCalls
    /\ calls' = calls + 1
    /\ \E name \in LongNames, openOk \in FaultChoices, t \in ClockReadings :
         \E r \in savePreset(Self, files, PresetInput(name), TRUE, t, openOk) :
            /\ now' = t
            /\ Cardinality(DOMAIN r.files) <= MaxPresets + 1
            /\ loadedPresets' = r.m.loadedPresets
            /\ originalPresets' = r.m.originalPresets
            /\ currentPresetIndex' = r.m.currentPresetIndex
            /\ files' = r.files
            /\ faults' = IF openOk THEN faults ELSE faults + 1
            /\ last' = Call("savePreset", r.ok, name, TRUE, 0, r.saved)
    /\ UNCHANGED <<exported, chats, currentChatIndex,
                   hasInitialized, defaultPreset, constructed, edits>>

NextLongNames ==
    \/ Construct
    \/ SaveAsLongName
    \/ SwitchPreset

SpecLongNames == InitLongNames /\ [][NextLongNames]_vars

\* ------------------------------------------------------ the preset sidebar
\* The record of a sidebar action: that of the savePreset or deletePreset it
\* made, and whether the loadPresets that follows a success ran and what it
\* returned.
UiCall(op, ok, name, create, saved, reloaded, loaded) ==
    [reloaded |-> reloaded, loaded |-> loaded]
       @@ Call(op, ok, name, create, 0, saved)

\* Whether a filesystem operation of the second call of a sidebar action may
\* fail, f operations having failed so far.
FaultChoicesAfter(f) == IF f < MaxFaults THEN {TRUE, FALSE} ELSE {TRUE}

\* What a sidebar action leaves behind: the outcome r of its savePreset or
\* deletePreset when that returned false, and otherwise the outcome of the
\* loadPresets() it goes on to call; f counts the failed operations and t is
\* the clock after the first call.
ThenLoadPresets(op, r, name, create, saved, f, t) ==
    IF ~r.ok
    THEN /\ loadedPresets' = r.m.loadedPresets
         /\ originalPresets' = r.m.originalPresets
         /\ currentPresetIndex' = r.m.currentPresetIndex
         /\ files' = r.files
         /\ faults' = f
         /\ now' = t
         /\ last' = UiCall(op, FALSE, name, create, saved, FALSE, FALSE)
         /\ UNCHANGED hasInitialized
    ELSE \E iterOk \in FaultChoicesAfter(f), openOk \in FaultChoicesAfter(f),
            t2 \in {u \in t..(t + 1) : u <= MaxTime} :
            \E q \in loadPresets(r.m, r.files, hasInitialized, defaultPreset,
                                 t2, iterOk, openOk) :
               /\ loadedPresets' = q.m.loadedPresets
               /\ originalPresets' = q.m.originalPresets
               /\ currentPresetIndex' = q.m.currentPresetIndex
               /\ hasInitialized' = q.hasInitialized
               /\ files' = q.files
               /\ faults' = IF q.failed THEN f + 1 ELSE f
               /\ now' = (IF q.stamped THEN t2 ELSE t)
               /\ last' = UiCall(op, TRUE, name, create, saved, TRUE, q.ok)

\* The combo box: switchPreset(currentIndex) with the index of an entry.
UiSwitchPreset ==
    /\ constructed
    /\ HasCurrent
    /\ calls < MaxCalls
    /\ calls' = calls + 1
    /\ \E newIndex \in 0..(Len(loadedPresets) - 1) :
         LET r == switchPreset(Self, newIndex)
         IN  /\ loadedPresets' = r.loadedPresets
             /\ originalPresets' = r.originalPresets
             /\ currentPresetIndex' = r.currentPresetIndex
             /\ last' = Call("switchPreset", TRUE, <<>>, FALSE, newIndex,
                             <<>>)
    /\ UNCHANGED <<exported, chats, currentChatIndex,
                   hasInitialized, defaultPreset, files, now, constructed,
                   edits, faults>>

\* The Save button: with unsaved changes, savePreset(copy of the current
\* preset) and, when that returned true, loadPresets().
UiSave ==
    /\ constructed
    /\ HasCurrent
    /\ hasUnsavedChanges(Self)
    /\ calls < MaxCalls
    /\ calls' = calls + 1
    /\ LET currentPreset == loadedPresets[currentPresetIndex + 1]
       IN  \E openOk \in FaultChoices, t \in ClockReadings :
              \E r \in savePreset(Self, files, currentPreset, FALSE, t,
                                  openOk) :
                 /\ openOk \/ isValidPresetName(currentPreset.name)
                 /\ ThenLoadPresets("uiSave", r, currentPreset.name, FALSE,
                                    r.saved,
                                    IF openOk THEN faults ELSE faults + 1, t)
    /\ UNCHANGED <<exported, chats, currentChatIndex,
                   defaultPreset, constructed, edits>>

\* confirmSaveAsDialog: with a non-empty name typed, savePreset(copy of the
\* current preset under that name, true) and, when that returned true,
\* loadPresets().
UiSaveAs ==
    /\ constructed
    /\ HasCurrent
    /\ calls < MaxCalls
    /\ calls' = calls + 1
    /\ \E newPresetName \in NameInputs \cup InvalidNameInputs,
          openOk \in FaultChoices, t \in ClockReadings :
         \E r \in savePreset(Self, files, PresetInput(newPresetName), TRUE,
                             t, openOk) :
            /\ strlen(newPresetName) > 0
            /\ openOk \/ isValidPresetName(newPresetName)
            /\ Cardinality(DOMAIN r.files) <= MaxPresets
            /\ ThenLoadPresets("uiSaveAs", r, newPresetName, TRUE, r.saved,
                               IF openOk THEN faults ELSE faults + 1, t)
    /\ UNCHANGED <<exported, chats, currentChatIndex,
                   defaultPreset, constructed, edits>>

\* The delete button: with more than one preset, deletePreset(name of the
\* current preset) and, when that returned true, loadPresets().
UiDelete ==
    /\ constructed
    /\ HasCurrent
    /\ Len(loadedPresets) > 1
    /\ calls < MaxCalls
    /\ calls' = calls + 1
    /\ LET presetName == loadedPresets[currentPresetIndex + 1].name
       IN  \E removeOk \in FaultChoices :
              LET r == deletePreset(Self, files, presetName, removeOk)
              IN  /\ removeOk \/ FileExists(files, presetName)
                  /\ ThenLoadPresets("uiDelete", r, presetName, FALSE, <<>>,
                                     IF removeOk THEN faults ELSE faults + 1,
                                     now)
    /\ UNCHANGED <<exported, chats, currentChatIndex,
                   defaultPreset, constructed, edits>>

NextUI ==
    \/ Construct
    \/ UiSwitchPreset
    \/ EditCurrentPreset
    \/ UiSave
    \/ UiSaveAs
    \/ UiDelete

SpecUI == Init /\ [][NextUI]_vars

\* ------------------------------------------------------------------ claims
\* The members as they are after the step.
SelfAfter == Manager(loadedPresets', originalPresets', currentPresetIndex')

\* C1: after savePreset returns true, in either mode, for a preset that is in
\* the collection afterwards, the current index points at the saved entry:
\* the name of loadedPresets[currentPresetIndex] is the name saved under.
C1_CurrentIsSaved ==
    (/\ last.op = "savePreset"
     /\ last.ok
     /\ NamedAt(loadedPresets, last.saved) # {})
    => /\ HasCurrent
       /\ loadedPresets[currentPresetIndex + 1].name = last.saved

C4_IndexValidOrSentinel ==
    constructed
    => IF Len(loadedPresets) = 0
       THEN currentPresetIndex = -1
       ELSE currentPresetIndex >= 0 /\ currentPresetIndex < Len(loadedPresets)

\* C5: switchPreset(i) with i in range, called while the current preset has
\* unsaved changes, discards the edits before switching: afterwards the entry
\* at the previously current index equals its snapshot on every field, the
\* snapshots are untouched and the current index is i (also when i is the
\* current index).
C5_SwitchDiscardsEdits ==
    [][(/\ last'.op = "switchPreset"
        /\ hasUnsavedChanges(Self)
        /\ last'.index >= 0
        /\ last'.index < Len(loadedPresets))
       => /\ currentPresetIndex' = last'.index
          /\ originalPresets' = originalPresets
          /\ Len(loadedPresets') = Len(loadedPresets)
          /\ \A f \in Fields :
                loadedPresets'[currentPresetIndex + 1][f]
                   = originalPresets[currentPresetIndex + 1][f]]_vars

\* C5 witness: switchPreset was called with an index in range while the
\* current preset had unsaved changes.
C5_Witness ==
    /\ last.op = "switchPreset"
    /\ last.dirty
    /\ last.index >= 0
    /\ last.index < Len(loadedPresets)
    /\ last.index # last.old

\* C6: switchPreset(i) with i < 0 or i >= size is a no-op: the current index,
\* both collections (unsaved edits included) and the files are unchanged.
C6_SwitchOutOfRangeIsNoOp ==
    [][(/\ last'.op = "switchPreset"
        /\ (last'.index < 0 \/ last'.index >= Len(loadedPresets)))
       => UNCHANGED <<loadedPresets, originalPresets, currentPresetIndex,
                      files>>]_vars

\* C6 witness: switchPreset was called with an index out of range while the
\* current preset had unsaved changes, which it still has.
C6_Witness ==
    /\ last.op = "switchPreset"
    /\ (last.index < 0 \/ last.index >= Len(loadedPresets))
    /\ last.dirty
    /\ hasUnsavedChanges(Self)

\* C7: after savePreset(P, false) returns true for a preset whose name is the
\* name of a loaded entry, the entry of that name is the same in both
\* collections, namely P with the new lastModified, so it has no unsaved
\* changes.
C7_SavedEntryIsClean ==
    [][\A n \in SaveNames :
          (/\ last'.op = "savePreset"
           /\ last'.name = n
           /\ ~last'.create
           /\ last'.ok
           /\ NamedAt(loadedPresets, n) # {})
          => /\ NamedAt(loadedPresets', n) # {}
             /\ \A i \in NamedAt(loadedPresets', n) :
                   /\ loadedPresets'[i] = originalPresets'[i]
                   /\ loadedPresets'[i]
                         = [PresetInput(n) EXCEPT !.lastModified = now']]_vars

\* C7 witness: the current preset had unsaved changes and savePreset(P, false)
\* with the name of a loaded entry returned true.
C7_Witness ==
    /\ last.op = "savePreset"
    /\ ~last.create
    /\ last.ok
    /\ last.hit
    /\ last.dirty

\* C8: once a widget has written into a field of the current preset a value
\* different from the persisted one, hasUnsavedChanges() is true, and it
\* stays true until the next savePreset, resetCurrentPreset, in-range
\* switchPreset or loadPresets: deletePreset of a different preset and an
\* out-of-range switchPreset do not make it false.
C8_UnsavedUntilSaveOrDiscard ==
    [][/\ (/\ last'.op = "edit"
           /\ \E f \in EditableFields :
                 /\ last'.name = <<f>>
                 /\ loadedPresets'[currentPresetIndex + 1][f]
                       # originalPresets[currentPresetIndex + 1][f])
          => hasUnsavedChanges(SelfAfter)
       /\ (/\ hasUnsavedChanges(Self)
           /\ \/ /\ last'.op = "deletePreset"
                 /\ last'.name # loadedPresets[currentPresetIndex + 1].name
              \/ /\ last'.op = "switchPreset"
                 /\ (last'.index < 0 \/ last'.index >= Len(loadedPresets)))
          => hasUnsavedChanges(SelfAfter)]_vars

\* Two presets that agree on every field but the id.
SameButId(p, q) == \A f \in Fields \ {"id"} : p[f] = q[f]

\* The collection after is the collection before without its entry at
\* position i: one entry fewer, the others in their order, ids 1..N.
RemovedAt(before, after, i) ==
    /\ Len(after) = Len(before) - 1
    /\ \A k \in 1..Len(after) :
          /\ SameButId(after[k], IF k < i THEN before[k] ELSE before[k + 1])
          /\ after[k].id = k

\* C9 as claimed: deletePreset(name), when name is the name of an entry,
\* removes exactly that entry at the same index from both collections, keeps
\* the order of the others, leaves their ids equal to 1..N, and removes the
\* file <name>.json.
C9_DeleteRemovesEntryAndFile ==
    [][(last'.op = "deletePreset" /\ NamedAt(loadedPresets, last'.name) # {})
       => /\ \E i \in NamedAt(loadedPresets, last'.name) :
                /\ RemovedAt(loadedPresets, loadedPresets', i)
                /\ RemovedAt(originalPresets, originalPresets', i)
          /\ NamedAt(loadedPresets', last'.name) = {}
          /\ ~FileExists(files', last'.name)]_vars

\* C9 amended: deletePreset(name), when name is the name of an entry, removes
\* exactly that entry at the same index from both collections, keeps the
\* order of the others and leaves their ids equal to 1..N; the file
\* <name>.json is removed when the call returns true, and when the file
\* cannot be removed the call returns false and the file stays as it was.
\* No other file changes.
C9_DeleteRemovesEntry ==
    [][(last'.op = "deletePreset" /\ NamedAt(loadedPresets, last'.name) # {})
       => /\ \E i \in NamedAt(loadedPresets, last'.name) :
                /\ RemovedAt(loadedPresets, loadedPresets', i)
                /\ RemovedAt(originalPresets, originalPresets', i)
          /\ NamedAt(loadedPresets', last'.name) = {}
          /\ IF last'.ok
             THEN ~FileExists(files', last'.name)
             ELSE FileExists(files', last'.name) /\ files' = files
          /\ \A n \in DOMAIN files \ {last'.name} :
                FileExists(files', n) /\ files'[n] = files[n]]_vars

\* C9 witness: deletePreset removed an entry that was neither the first nor
\* the last, and its file.
C9_Witness ==
    /\ last.op = "deletePreset"
    /\ last.hit
    /\ last.ok
    /\ Len(loadedPresets) >= 2
    /\ ~FileExists(files, last.name)
    /\ \E i \in 1..(Len(loadedPresets) - 1) :
          loadedPresets[i].lastModified # loadedPresets[i + 1].lastModified

\* C10: after every structural change of the collection, an insert by
\* savePreset(P, true) as well as a deletePreset, the id of the entry at
\* index i is i + 1.
C10_IdsDense ==
    (\/ last.op = "savePreset" /\ last.create /\ last.ok
     \/ last.op = "deletePreset" /\ last.hit)
    => \A i \in 1..Len(loadedPresets) : loadedPresets[i].id = i

\* The name base with the suffix "_k".
Suffixed(base, k) == base \o <<"_">> \o to_string(k)

\* C11: savePreset(P, true) when the file of P.name exists saves under
\* P.name + "_k" for the smallest k >= 1 that has no file (the suffix goes on
\* the original name), writes that one file, appends exactly one entry of
\* that name to both collections, and leaves the preset named P.name
\* untouched: its file and its entries in loadedPresets and originalPresets.
C11_SaveAsKeepsExisting ==
    [][(/\ last'.op = "savePreset"
        /\ last'.create
        /\ last'.ok
        /\ FileExists(files, last'.name))
       => /\ \E k \in 1..(MaxPresets + 1) :
                /\ last'.saved = Suffixed(last'.name, k)
                /\ ~FileExists(files, Suffixed(last'.name, k))
                /\ \A j \in 1..(k - 1) :
                      FileExists(files, Suffixed(last'.name, j))
          /\ DOMAIN files' = DOMAIN files \cup {last'.saved}
          /\ from_json_ok(files'[last'.saved])
          /\ files'[last'.saved].name = last'.saved
          /\ \A f \in DOMAIN files : files'[f] = files[f]
          /\ Len(loadedPresets') = Len(loadedPresets) + 1
          /\ Len(originalPresets') = Len(originalPresets) + 1
          /\ Cardinality(NamedAt(loadedPresets', last'.saved))
                = Cardinality(NamedAt(loadedPresets, last'.saved)) + 1
          /\ Cardinality(NamedAt(originalPresets', last'.saved))
                = Cardinality(NamedAt(originalPresets, last'.saved)) + 1
          /\ \A i \in NamedAt(loadedPresets, last'.name) :
                \E j \in 1..Len(loadedPresets') :
                   /\ loadedPresets'[j] = loadedPresets[i]
                   /\ originalPresets'[j] = originalPresets[i]]_vars

\* C12: preset names are unique within the store: no two entries of
\* loadedPresets have the same name, whatever loadPresets (on a directory the
\* store wrote), savePreset in either mode and deletePreset have done.
C12_NamesUnique ==
    \A i, j \in 1..Len(loadedPresets) :
       loadedPresets[i].name = loadedPresets[j].name => i = j

\* C12 witness: savePreset(P, true) was called with the name of a loaded
\* preset and saved under another name, and three presets are loaded.
C12_Witness ==
    /\ last.op = "savePreset"
    /\ last.create
    /\ last.ok
    /\ last.hit
    /\ last.saved # last.name
    /\ Len(loadedPresets) = 3

\* The store holds exactly the default preset: one file, default.json, with
\* the default preset named "default", the same single entry in both
\* collections, and the current index 0.
OnlyDefaultStored(fs, l, o, c, default) ==
    /\ DOMAIN fs = {DefaultName}
    /\ from_json_ok(fs[DefaultName])
    /\ SameButId(from_json(fs[DefaultName]),
                 [default EXCEPT !.lastModified = fs[DefaultName].lastModified])
    /\ fs[DefaultName].id = default.id
    /\ fs[DefaultName].name = DefaultName
    /\ Len(l) = 1
    /\ l[1] = from_json(fs[DefaultName])
    /\ o = l
    /\ c = 0

Readable(fs) == {n \in DOMAIN fs : from_json_ok(fs[n])}

\* C14: loadPresets writes the default preset as seed only when the scan
\* found zero presets and it is the first load of the store, the
\* constructor's: a later loadPresets that finds zero presets and returns
\* true writes no file and leaves the collections empty with current index
\* -1; and a load that found a preset writes nothing. Stated for the runs in
\* which no filesystem operation has failed, so that the constructor's load
\* was a complete one.
C14_SeedOnlyOnFirstLoad ==
    [][/\ (/\ last'.op = "loadPresets"
           /\ last'.ok
           /\ faults' = 0
           /\ Readable(files) = {})
          => /\ files' = files
             /\ loadedPresets' = <<>>
             /\ originalPresets' = <<>>
             /\ currentPresetIndex' = -1
       /\ (last'.op \in {"loadPresets", "construct"} /\ Readable(files) # {})
          => files' = files]_vars

\* No entry of s is older than an entry before it.
NewestFirst(s) ==
    \A i, j \in 1..Len(s) : i < j => s[i].lastModified >= s[j].lastModified

\* C15: both collections are ordered by lastModified descending after
\* loadPresets and after every successful savePreset, and deletePreset and
\* switchPreset keep the order: in every state, for all indices i < j,
\* loaded[i].lastModified >= loaded[j].lastModified, and the same for
\* originalPresets.
C15_SortedNewestFirst ==
    NewestFirst(loadedPresets) /\ NewestFirst(originalPresets)

\* C15 witness: a load or a save has just ordered presets of different age,
\* the newer one first.
C15_Witness ==
    /\ last.op \in {"construct", "loadPresets", "savePreset"}
    /\ last.ok
    /\ Len(loadedPresets) >= 2
    /\ loadedPresets[1].lastModified > loadedPresets[Len(loadedPresets)].lastModified
    /\ originalPresets[1].name = loadedPresets[1].name

\* C16: during loadPresets a file that does not parse, or lacks one of the
\* ten fields, is skipped without aborting the load: with such a file in the
\* directory, a load whose enumeration does not fail returns true, every
\* readable file has its entry, the same in both collections, and there is
\* no other entry: each entry is the complete record of a readable file.
C16_DamagedFileIsSkipped ==
    [][(/\ last'.op \in {"construct", "loadPresets"}
        /\ Readable(files) # DOMAIN files)
       => /\ faults' = faults => last'.ok
          /\ last'.ok
             => /\ \A n \in Readable(files) :
                      \E i \in 1..Len(loadedPresets') :
                         /\ loadedPresets'[i] = from_json(files[n])
                         /\ originalPresets'[i] = from_json(files[n])
                /\ Len(loadedPresets') = Cardinality(Readable(files'))
                /\ Len(originalPresets') = Len(loadedPresets')
                /\ \A i \in 1..Len(loadedPresets') :
                      /\ DOMAIN loadedPresets'[i] = Fields
                      /\ \E n \in Readable(files') :
                            loadedPresets'[i] = from_json(files'[n])]_vars

\* C16 witness: a load has just returned true on a directory that holds an
\* unreadable file beside a readable one, which is loaded; nothing was
\* seeded.
C16_Witness ==
    /\ last.op \in {"construct", "loadPresets"}
    /\ last.ok
    /\ ~hasInitialized
    /\ Readable(files) # DOMAIN files
    /\ Len(loadedPresets) = 1
    /\ Cardinality(DOMAIN files) = 2

\* C17: a savePreset call that fails returns false and changes nothing. A
\* call with an invalid name, or whose file cannot be opened for writing,
\* returns false; every call that returns false leaves loadedPresets,
\* originalPresets (unsaved edits included) and the current index exactly as
\* they were; and with an invalid name the directory is as it was.
C17_FailedSaveChangesNothing ==
    [][(last'.op = "savePreset")
       => /\ (last'.name \in InvalidNameInputs \/ faults' # faults)
             => ~last'.ok
          /\ ~last'.ok
             => UNCHANGED <<loadedPresets, originalPresets,
                            currentPresetIndex>>
          /\ last'.name \in InvalidNameInputs
             => UNCHANGED <<files, faults>>]_vars

\* C17 witness: savePreset(P, false) for the current preset, which has
\* unsaved changes, has just returned false because its file could not be
\* opened, and the preset still has its unsaved changes.
C17_Witness ==
    /\ last.op = "savePreset"
    /\ ~last.ok
    /\ ~last.create
    /\ last.hit
    /\ last.dirty
    /\ faults = 1
    /\ hasUnsavedChanges(Self)

\* The characters the claim lists: < > : " / \ | ? *
ListedChars == {"<", ">", ":", "\"", "/", "\\", "|", "?", "*"}

\* C18 as claimed: for every string N, isValidPresetName(N) is false if and
\* only if N is empty, N is longer than 256 characters, or N contains one of
\* the characters < > : " / \ | ? *.
C18_InvalidIffEmptyLongOrListedChar ==
    last.op = "isValidPresetName"
    => (~last.ok
        <=> \/ Len(last.name) = 0
            \/ Len(last.name) > 256
            \/ \E i \in 1..Len(last.name) : last.name[i] \in ListedChars)

\* C18 amended: for every string N, isValidPresetName(N) is false if and only
\* if N is empty or starts with a NUL character, N is longer than 256
\* characters, or N contains one of the characters < > : " / \ | ? *; a name
\* of exactly 256 legal characters is valid.
C18_InvalidIffEmptyNulLongOrListedChar ==
    last.op = "isValidPresetName"
    => (~last.ok
        <=> \/ Len(last.name) = 0
            \/ last.name[1] = NUL
            \/ Len(last.name) > 256
            \/ \E i \in 1..Len(last.name) : last.name[i] \in ListedChars)

\* C18 witness: isValidPresetName has returned true for a name of exactly 256
\* characters.
C18_Witness ==
    /\ last.op = "isValidPresetName"
    /\ Len(last.name) = 256
    /\ last.ok

\* C19: when deletePreset(name) matches an entry but the file exists and
\* cannot be removed, the call returns false although the entry is already
\* gone from both collections, with the current index clamped to the new size
\* and the ids renumbered; the file stays as it was; and a loadPresets that
\* follows and returns true brings the preset back, as its file holds it.
C19_FailedDeleteIsPartial ==
    [][/\ (/\ last'.op = "deletePreset"
           /\ NamedAt(loadedPresets, last'.name) # {}
           /\ FileExists(files, last'.name)
           /\ faults' # faults)
          => /\ ~last'.ok
             /\ \E i \in NamedAt(loadedPresets, last'.name) :
                   /\ RemovedAt(loadedPresets, loadedPresets', i)
                   /\ RemovedAt(originalPresets, originalPresets', i)
             /\ NamedAt(loadedPresets', last'.name) = {}
             /\ currentPresetIndex' =
                   (IF currentPresetIndex >= Len(loadedPresets')
                    THEN Len(loadedPresets') - 1
                    ELSE currentPresetIndex)
             /\ files' = files
       /\ (/\ last.op = "deletePreset"
           /\ last.hit
           /\ ~last.ok
           /\ last'.op = "loadPresets"
           /\ last'.ok)
          => \E i \in 1..Len(loadedPresets') :
                /\ loadedPresets'[i].name = last.name
                /\ loadedPresets'[i] = from_json(files[last.name])
                /\ originalPresets'[i] = loadedPresets'[i]]_vars

\* C19 witness: deletePreset has just returned false for a loaded preset: the
\* entry is gone, its file is still there, and another preset is left.
C19_Witness ==
    /\ last.op = "deletePreset"
    /\ last.hit
    /\ ~last.ok
    /\ NamedAt(loadedPresets, last.name) = {}
    /\ FileExists(files, last.name)
    /\ Len(loadedPresets) >= 1

\* C20 as claimed: savePresetToPath(P, path) validates the name as savePreset
\* does (an invalid name gives false) and never touches the managed state:
\* whatever it returns, loadedPresets, originalPresets, the current index and
\* the files of the presets directory are unchanged, and hasUnsavedChanges()
\* is the same before and after.
C20_ExportTouchesNothingManaged ==
    [][(last'.op = "savePresetToPath")
       => /\ last'.name \in InvalidNameInputs => ~last'.ok
          /\ UNCHANGED <<loadedPresets, originalPresets, currentPresetIndex,
                         files>>
          /\ hasUnsavedChanges(SelfAfter) = hasUnsavedChanges(Self)]_vars

\* C20 amended: savePresetToPath(P, path) validates the name as savePreset
\* does and never touches the collections: whatever it returns,
\* loadedPresets, originalPresets and the current index are unchanged and
\* hasUnsavedChanges() is the same before and after. A call that returns
\* false writes no file. The files of the presets directory are unchanged
\* unless path itself names a file of that directory: then a call that
\* returns true writes P, as passed, to that one file, whatever its name, and
\* leaves the other files alone.
C20_ExportTouchesNoCollection ==
    [][(last'.op = "savePresetToPath")
       => /\ last'.name \in InvalidNameInputs => ~last'.ok
          /\ UNCHANGED <<loadedPresets, originalPresets, currentPresetIndex>>
          /\ hasUnsavedChanges(SelfAfter) = hasUnsavedChanges(Self)
          /\ ~last'.ok => UNCHANGED <<files, exported>>
          /\ IF last'.ok /\ last'.saved.dir = "presets"
             THEN /\ DOMAIN files' = DOMAIN files \cup {last'.saved.stem}
                  /\ files'[last'.saved.stem] = to_json(PresetInput(last'.name))
                  /\ \A n \in DOMAIN files \ {last'.saved.stem} :
                        files'[n] = files[n]
             ELSE files' = files]_vars

\* C20 witness: savePresetToPath has just returned true for the current
\* preset, which has unsaved changes, written to a path outside the presets
\* directory.
C20_Witness ==
    /\ last.op = "savePresetToPath"
    /\ last.ok
    /\ last.dirty
    /\ hasUnsavedChanges(Self)
    /\ last.saved.dir = "elsewhere"
    /\ last.saved \in DOMAIN exported

\* C21: resetCurrentPreset() with a valid current index overwrites
\* loaded[current] with original[current]: afterwards hasUnsavedChanges() is
\* false, and every other entry of loadedPresets, all of originalPresets, the
\* current index and the files are unchanged; a second call would change
\* nothing; and with current index -1 the call is a no-op.
C21_ResetRestoresCurrentOnly ==
    [][(last'.op = "resetCurrentPreset")
       => /\ UNCHANGED <<originalPresets, currentPresetIndex, files>>
          /\ Len(loadedPresets') = Len(loadedPresets)
          /\ resetCurrentPreset(SelfAfter) = SelfAfter
          /\ IF HasCurrent
             THEN /\ loadedPresets'[currentPresetIndex + 1]
                        = originalPresets[currentPresetIndex + 1]
                  /\ ~hasUnsavedChanges(SelfAfter)
                  /\ \A i \in 1..Len(loadedPresets) :
                        i # currentPresetIndex + 1
                        => loadedPresets'[i] = loadedPresets[i]
             ELSE loadedPresets' = loadedPresets]_vars

\* C21 witness: resetCurrentPreset() has just discarded the unsaved changes of
\* a current preset that is not the first entry.
C21_Witness ==
    /\ last.op = "resetCurrentPreset"
    /\ last.dirty
    /\ currentPresetIndex >= 1
    /\ ~hasUnsavedChanges(Self)

IdsInOrder(chat) ==
    \A i \in 1..Len(chat.messages) : chat.messages[i].id = i

\* C23: within each chat session message ids are assigned as the previous
\* message count + 1: in every state, whatever appends, switches, renames and
\* creations came before, the messages of every session carry the ids
\* 1, 2, ..., n in insertion order; and a submitted input appends two messages
\* to the current session only, a user message and then an assistant message,
\* whose stored ids are the ids the input field computed, count + 1 and
\* count + 2 (1 then 2 on an empty session).
C23_MessageIdsCountUp ==
    [][/\ \A i \in 1..Len(chats') : IdsInOrder(chats'[i])
       /\ (last'.op = "processInput")
          => LET c   == currentChatIndex + 1
                 old == chats[c].messages
                 new == chats'[c].messages
             IN  /\ currentChatIndex' = currentChatIndex
                 /\ Len(chats') = Len(chats)
                 /\ \A i \in 1..Len(chats) :
                       /\ chats'[i].name = chats[i].name
                       /\ i # c => chats'[i] = chats[i]
                 /\ Len(new) = Len(old) + 2
                 /\ SubSeq(new, 1, Len(old)) = old
                 /\ new[Len(old) + 1] = Message(Len(old) + 1, "user")
                 /\ new[Len(old) + 2] = Message(Len(old) + 2, "assistant")
                 /\ last'.index = new[Len(old) + 1].id
                 /\ last'.saved = new[Len(old) + 2].id]_vars

\* C23 witness: an input has just been submitted to the first of three
\* sessions, which now holds four messages, after another session was created
\* and received two messages in between.
C23_Witness ==
    /\ last.op = "processInput"
    /\ Len(chats) = 3
    /\ currentChatIndex = 0
    /\ Len(chats[1].messages) = 4
    /\ Len(chats[2].messages) = 2
    /\ \A i \in 1..4 : chats[1].messages[i].id = i

\* C24: the "create new chat" button appends exactly one session, with an
\* empty transcript and the name it was given (the fixed prefix, a space and
\* the number of sessions before the call), and makes it the current session;
\* every session that existed keeps its name and its messages; afterwards the
\* registry is non-empty and the current index designates one session.
C24_CreateAppendsAndSelects ==
    [][(last'.op = "createNewChat")
       => /\ Len(chats') = Len(chats) + 1
          /\ chats'[Len(chats')]
                = ChatHistory(getDefaultChatName \o <<" ">>
                                 \o to_string(Len(chats)), <<>>)
          /\ chats'[Len(chats')].name = last'.name
          /\ \A i \in 1..Len(chats) : chats'[i] = chats[i]
          /\ currentChatIndex' = Len(chats)
          /\ Len(chats') > 0
          /\ hasCurrentChat(Registry(chats', currentChatIndex'))]_vars

\* C24 witness: a session has just been created while another session, which
\* holds messages and was renamed, was the current one.
C24_Witness ==
    /\ last.op = "createNewChat"
    /\ Len(chats) = 3
    /\ currentChatIndex = 2
    /\ chats[3].messages = <<>>
    /\ \E i \in 1..2 : chats[i].name = <<"r">> /\ Len(chats[i].messages) = 2

\* C25: only the current preset can carry unsaved edits: in every state
\* reached through in-place edits of the current preset and any sequence of
\* savePreset (both modes), deletePreset, switchPreset, resetCurrentPreset and
\* loadPresets, loaded[i] equals original[i] for every index i other than the
\* current index.
C25_OnlyCurrentIsDirty ==
    \A i \in 1..Len(loadedPresets) :
       i # currentPresetIndex + 1
       => /\ i <= Len(originalPresets)
          /\ loadedPresets[i] = originalPresets[i]

\* C26: deletePreset(name) of a stored preset that is not the current one
\* leaves the same preset current: the name of loadedPresets[currentPresetIndex]
\* is the same before and after the call, whether the deleted entry is
\* positioned before or after the current entry.
C26_DeleteOtherKeepsCurrent ==
    [][(/\ last'.op = "deletePreset"
        /\ last'.ok
        /\ HasCurrent
        /\ NamedAt(loadedPresets, last'.name) # {}
        /\ loadedPresets[currentPresetIndex + 1].name # last'.name)
       => /\ IntGeSize(currentPresetIndex', 0)
          /\ IntLtSize(currentPresetIndex', Len(loadedPresets'))
          /\ loadedPresets'[currentPresetIndex' + 1].name
                = loadedPresets[currentPresetIndex + 1].name]_vars

\* The names of the presets held in memory.
LoadedNames(l) == {l[i].name : i \in 1..Len(l)}

\* C27: as long as no filesystem operation fails, the collection in memory and
\* the presets directory agree on the set of presets: a successful savePreset
\* (either mode, whatever the name) or deletePreset that starts on a
\* constructed store whose loaded names are the names of the files, all of
\* them readable, ends with the loaded names equal to the names of the files.
C27_MemoryMatchesDirectory ==
    [][(/\ last'.op \in {"savePreset", "deletePreset"}
        /\ last'.ok
        /\ constructed
        /\ faults' = 0
        /\ Readable(files) = DOMAIN files
        /\ LoadedNames(loadedPresets) = DOMAIN files)
       => LoadedNames(loadedPresets') = DOMAIN files']_vars

\* The last loadPresets, the constructor's or a sidebar action's, returned
\* false: the presets directory could not be enumerated. No sidebar action
\* is possible after it.
EnumerationJustFailed ==
    \/ last.op = "construct" /\ ~last.ok
    \/ /\ last.op \in {"uiSave", "uiSaveAs", "uiDelete"}
       /\ last.reloaded
       /\ ~last.loaded

\* C28: getCurrentPreset() is always defined when the sidebar calls it: after
\* the constructor has returned and after every sidebar action (the combo
\* box's switchPreset, Save, Save as New, Delete), loadedPresets is non-empty
\* and 0 <= currentPresetIndex < size, in runs where a file write, parse or
\* delete fails too (a failure to enumerate the directory is not one of
\* these and is left out).
C28_CurrentPresetDefined ==
    (/\ constructed
     /\ ~EnumerationJustFailed)
    => (Len(loadedPresets) > 0 /\ HasCurrent)

\* C30: the Save button (savePreset(copy of the current preset, false), then
\* loadPresets() on success) ends with the preset just saved as the current
\* one: when both calls succeed, loadedPresets[currentPresetIndex].name is
\* the saved name, its fields are the edited values of before the action,
\* and hasUnsavedChanges() is false, whatever the store holds, another preset
\* stamped with the second of the save included.
C30_SaveKeepsSavedCurrent ==
    [][(/\ last'.op = "uiSave"
        /\ last'.ok
        /\ last'.loaded
        /\ faults' = 0)
       => /\ IntLtSize(currentPresetIndex', Len(loadedPresets'))
          /\ loadedPresets'[currentPresetIndex' + 1].name = last'.saved
          /\ SameButId([loadedPresets'[currentPresetIndex' + 1]
                           EXCEPT !.lastModified = 0],
                       [loadedPresets[currentPresetIndex + 1]
                           EXCEPT !.lastModified = 0])
          /\ ~hasUnsavedChanges(SelfAfter)]_vars

\* C29: every preset name that savePreset persists and inserts satisfies
\* isValidPresetName: after savePreset(P, createNewFile=true) returns true,
\* the name it saved under, collision suffix included, is the name of a file
\* and of an entry and is non-empty, at most 256 characters long and free of
\* the illegal characters.
C29_PersistedNamesAreValid ==
    (/\ last.op = "savePreset"
     /\ last.ok
     /\ last.create)
    => /\ FileExists(files, last.saved)
       /\ NamedAt(loadedPresets, last.saved) # {}
       /\ isValidPresetName(last.saved)

====
